---- MODULE Spec2Model ----
(***************************************************************************)
(* etcd::Watch<Reply> (include/watch.hpp) driving internal::Curl           *)
(* (include/internal/curl.hpp): the long-poll loop Run, the single-shot    *)
(* RunOnce, and the stale-index recovery both share.                       *)
(*                                                                         *)
(* URLs are TLA+ strings built with \o exactly as the code concatenates    *)
(* them.  Captured header text is a sequence of one-character strings, so  *)
(* that getline, find, substr and stoi are computed character by           *)
(* character.                                                              *)
(***************************************************************************)
EXTENDS Integers, Sequences, FiniteSets, TLC

(***************************************************************************)
(* Bounds of the model.                                                    *)
(***************************************************************************)
\* modified indexes a reply may carry: 0..MaxIndex, plus the scenario values
MaxIndex == 1
\* prevIndex arguments a caller may pass: 0..MaxPrev
MaxPrev == 1
\* the per-call counters of the history saturate at CountCap
CountCap == 2

(***************************************************************************)
(* Program constants.                                                      *)
(***************************************************************************)
MAX_FAILURES == 5
\* the largest value std::stoi returns (int)
INT_MAX == 2147483647
\* the error code of "event index cleared"
EcodeEventIndexCleared == 401
\* the client port the engine is constructed with
ClientPort == 2379

(***************************************************************************)
(* std::to_string on a non-negative integer: its decimal digits.           *)
(***************************************************************************)
Digits == <<"0", "1", "2", "3", "4", "5", "6", "7", "8", "9">>

RECURSIVE to_string(_)
to_string(n) ==
    IF n < 10 THEN Digits[n + 1]
    ELSE to_string(n \div 10) \o Digits[(n % 10) + 1]

(***************************************************************************)
(* Header text: std::getline, std::string::find, substr and std::stoi.     *)
(***************************************************************************)
etcd_index_label ==
    <<"X","-","E","t","c","d","-","I","n","d","e","x",":"," ">>

\* std::string::npos, a value no position equals
npos == -1

\* std::string::find: the first 0-based position of needle in s, or npos
RECURSIVE FindFrom(_, _, _)
FindFrom(s, needle, p) ==
    IF p + Len(needle) > Len(s) THEN npos
    ELSE IF SubSeq(s, p + 1, p + Len(needle)) = needle THEN p
    ELSE FindFrom(s, needle, p + 1)

find(s, needle) == FindFrom(s, needle, 0)

\* std::string::substr(pos): throws std::out_of_range when pos > size()
substr(s, pos) ==
    IF pos > Len(s) THEN [threw |-> TRUE, str |-> <<>>]
    ELSE [threw |-> FALSE, str |-> SubSeq(s, pos + 1, Len(s))]

\* std::getline over the whole stream: the text split at "\n"; text after
\* the last "\n" is a line of its own when it is not empty
RECURSIVE GetLinesFrom(_, _, _)
GetLinesFrom(s, i, cur) ==
    IF i > Len(s) THEN (IF cur = <<>> THEN <<>> ELSE <<cur>>)
    ELSE IF s[i] = "\n" THEN <<cur>> \o GetLinesFrom(s, i + 1, <<>>)
    ELSE GetLinesFrom(s, i + 1, Append(cur, s[i]))

getline(s) == GetLinesFrom(s, 1, <<>>)

IsSpace(c) == c \in {" ", "\t", "\n", "\r"}

IsDigit(c) == c \in {"0", "1", "2", "3", "4", "5", "6", "7", "8", "9"}

DigitVal(c) == CHOOSE d \in 0..9 : Digits[d + 1] = c

RECURSIVE SkipSpace(_, _)
SkipSpace(s, i) ==
    IF i <= Len(s) /\ IsSpace(s[i]) THEN SkipSpace(s, i + 1) ELSE i

\* the digits from position i on, accumulated; "range" once the value
\* leaves int
RECURSIVE Accumulate(_, _, _, _)
Accumulate(s, i, acc, any) ==
    IF i <= Len(s) /\ IsDigit(s[i])
    THEN IF acc > (INT_MAX - DigitVal(s[i])) \div 10
         THEN [what |-> "out_of_range", val |-> 0]
         ELSE Accumulate(s, i + 1, acc * 10 + DigitVal(s[i]), TRUE)
    ELSE IF any THEN [what |-> "ok", val |-> acc]
    ELSE [what |-> "invalid_argument", val |-> 0]

\* std::stoi: leading whitespace, an optional sign, then digits; what says
\* "ok", or names the exception it throws
stoi(s) ==
    LET i == SkipSpace(s, 1)
        neg == i <= Len(s) /\ s[i] = "-"
        j == IF i <= Len(s) /\ s[i] \in {"-", "+"} THEN i + 1 ELSE i
        r == Accumulate(s, j, 0, FALSE)
    IN  IF r.what = "ok" /\ neg THEN [what |-> "ok", val |-> 0 - r.val] ELSE r

\* the value the scan's condition leaves in pos: the result of the
\* comparison find(...) != npos, converted to size_type
MatchPos(line) == IF find(line, etcd_index_label) # npos THEN 1 ELSE 0

\* the while (std::getline(stream, line)) loop of the recovery: the first
\* line with a non-zero pos is parsed from position pos + len - 1 on, and
\* the scan stops; threw says that substr or stoi threw there
RECURSIVE ScanLines(_, _, _)
ScanLines(lines, i, prev) ==
    IF i > Len(lines) THEN [threw |-> FALSE, index |-> prev]
    ELSE LET pos == MatchPos(lines[i])
         IN  IF pos # 0
             THEN LET sub == substr(lines[i], pos + Len(etcd_index_label) - 1)
                      v == stoi(sub.str)
                  IN  IF sub.threw \/ v.what # "ok"
                      THEN [threw |-> TRUE, index |-> prev]
                      ELSE [threw |-> FALSE, index |-> v.val]
             ELSE ScanLines(lines, i + 1, prev)

ScanHeader(header, prev) == ScanLines(getline(header), 1, prev)

(***************************************************************************)
(* What the service can answer.                                            *)
(***************************************************************************)
LineDate == <<"D","a","t","e",":"," ","1","\r","\n">>
LineIndex7 ==
    <<"X","-","E","t","c","d","-","I","n","d","e","x",":"," ","7","\r","\n">>
LineIndex100 ==
    <<"X","-","E","t","c","d","-","I","n","d","e","x",":"," ","1","0","0",
      "\r","\n">>
LineIndexBad ==
    <<"X","-","E","t","c","d","-","I","n","d","e","x",":"," ","x","\r","\n">>
LineIndexBig ==
    <<"X","-","E","t","c","d","-","I","n","d","e","x",":"," ","2","1","4","7",
      "4","8","3","6","4","8","\r","\n">>
LineVia ==
    <<"V","i","a",":"," ","X","-","E","t","c","d","-","I","n","d","e","x",":",
      " ","5","\r","\n">>
LineCookie ==
    <<"S","e","t","-","C","o","o","k","i","e",":"," ","a","=","4","2"," ",
      "X","-","E","t","c","d","-","I","n","d","e","x",":"," ","z","z",
      "\r","\n">>

NoHeader == <<>>

\* the header blocks a response may carry
HeaderBlocks ==
    { LineDate,
      LineDate \o LineIndex100 \o LineIndex7,
      LineIndexBad \o LineIndex7,
      LineIndexBig,
      LineVia \o LineIndex100,
      LineCookie }

ReplyIndexes == (0 .. MaxIndex) \cup {42}

PrevIndexArgs == 0 .. MaxPrev

OtherErrorCodes == {100}

EmptyBody == [kind |-> "empty", n |-> 0]

\* a response body: a node with its modified index, an error body with its
\* error code, or text that is no reply at all
Bodies ==
    [kind : {"node"}, n : ReplyIndexes]
      \cup [kind : {"error"}, n : {EcodeEventIndexCleared} \cup OtherErrorCodes]
      \cup [kind : {"garbage"}, n : {0}]

(***************************************************************************)
(* Exceptions.                                                             *)
(***************************************************************************)
CurlException == [type |-> "CurlException", error_code |-> 0]

ReplyException(code) == [type |-> "ReplyException", error_code |-> code]

StdException == [type |-> "std::exception", error_code |-> 0]

\* something thrown that does not derive from std::exception
ForeignException == [type |-> "foreign", error_code |-> 0]

IsStdException(e) ==
    e.type \in {"CurlException", "ReplyException", "std::exception"}

NoReply == [ok |-> FALSE, modified_index |-> 0]

\* Reply r(ret): the reply, or the exceptions the constructor may throw on
\* this body.  An error body throws ReplyException with its code; what a
\* Reply type throws on text that is no reply is its own choice.
ReplyThrows(body) ==
    CASE body.kind = "node" -> {}
      [] body.kind = "error" -> {ReplyException(body.n)}
      [] OTHER -> {StdException} \cup {ReplyException(c) : c \in OtherErrorCodes}

\* callback(r): what a callback may throw: an exception of its own, derived
\* from std::exception or not, or a ReplyException of an operation of its
\* own on the service, "index cleared" of a wait of its own included
CallbackThrows ==
    {StdException, ForeignException}
      \cup {ReplyException(c) : c \in OtherErrorCodes \cup {EcodeEventIndexCleared}}

(***************************************************************************)
(* The state.                                                              *)
(***************************************************************************)
VARIABLES
    prev_index_,      \* Watch::prev_index_, the cached cursor
    enable_header_,   \* Curl::enable_header_
    header_stream_,   \* Curl::header_stream_, the captured header text
    url_,             \* the URL of the request the handle last performed
    pc,               \* where the call in progress stands
    mode,             \* "Run", "RunOnce", or "none" before the first call
    key,              \* the key argument of the call
    prevIndex,        \* the prevIndex argument of the call
    watch_url,        \* the local watch_url
    max_failures,     \* the local max_failures of Run
    ret,              \* the local ret: write_stream_.str() as Get returned it
    r,                \* the local Reply r
    result,           \* how the call ended
    \* history, read by the properties only
    iter,             \* the last watch iteration that ended
    streak,           \* failed iterations since entry or the last success
    n_watch,          \* long-poll requests of this RunOnce call
    n_plain,          \* plain GETs of this RunOnce call
    n_cb,             \* callback invocations of this RunOnce call
    cb_arg,           \* what the callback was last invoked with
    observed,         \* the greatest modified index of a successful watch
                      \* iteration of this engine, over all its calls
    faithful,         \* no long-poll of this call that carried waitIndex=w
                      \* was answered with a modified index below w
    audit             \* whether observed and faithful are recorded: they
                      \* are in SpecAudit, and keep their first values in Spec

engine == <<prev_index_, enable_header_, header_stream_, url_>>
locals == <<pc, mode, key, prevIndex, watch_url, max_failures, ret, r, result>>
history ==
    <<iter, streak, n_watch, n_plain, n_cb, cb_arg, observed, faithful, audit>>
vars == <<engine, locals, history>>

Server == "172.16.1.10"

Keys == {"/message"}

\* Watch::Watch: url_prefix_ as the constructor composes it
url_prefix_ == "http://" \o Server \o ":" \o to_string(ClientPort) \o "/v2/keys"

watch_url_base(k) == url_prefix_ \o k \o "?wait=true"

wait_url_base(k) == watch_url_base(k) \o "&waitIndex="

NoResult == [how |-> "none", what |-> ""]

NoIter == [res |-> "none", index |-> 0, streak0 |-> 0, exc |-> ""]

NoCbArg == [from |-> "none", modified_index |-> 0]

NoneObserved == [some |-> FALSE, index |-> 0]

\* RunOnce has no loop to count in: Run leaves the three counters at 0
Bump(n) == IF mode = "RunOnce" /\ n < CountCap THEN n + 1 ELSE n

\* Watch::Watch: the engine as constructed, no call made yet
Construct(a) ==
    /\ audit = a
    /\ prev_index_ = 0
    /\ enable_header_ = FALSE
    /\ header_stream_ = NoHeader
    /\ url_ = ""
    /\ pc = "idle"
    /\ mode = "none"
    /\ key = ""
    /\ prevIndex = 0
    /\ watch_url = ""
    /\ max_failures = 0
    /\ ret = EmptyBody
    /\ r = NoReply
    /\ result = NoResult
    /\ iter = NoIter
    /\ streak = 0
    /\ n_watch = 0
    /\ n_plain = 0
    /\ n_cb = 0
    /\ cb_arg = NoCbArg
    /\ observed = NoneObserved
    /\ faithful = TRUE

Init == Construct(FALSE)

InitAudit == Construct(TRUE)

(***************************************************************************)
(* Entry of Run and RunOnce.                                               *)
(***************************************************************************)
\* the watch_url the entry code leaves: watch_url_base, with
\* std::to_string(prev_index_ + 1) appended when a cursor is known
EntryUrl(k, prev, cached) ==
    IF prev # 0 THEN watch_url_base(k) \o to_string(prev + 1)
    ELSE IF cached # 0 THEN watch_url_base(k) \o to_string(cached + 1)
    ELSE watch_url_base(k)

\* the prev_index_ the entry code leaves
EntryIndex(prev, cached) == IF prev # 0 THEN prev ELSE cached

Enter(m, k, prev) ==
    /\ pc \in {"idle", "done"}
    /\ mode' = m
    /\ key' = k
    /\ prevIndex' = prev
    /\ prev_index_' = EntryIndex(prev, prev_index_)
    /\ watch_url' = EntryUrl(k, prev, prev_index_)
    /\ ret' = EmptyBody
    /\ r' = NoReply
    /\ result' = NoResult
    /\ iter' = NoIter
    /\ streak' = 0
    /\ n_watch' = 0
    /\ n_plain' = 0
    /\ n_cb' = 0
    /\ cb_arg' = NoCbArg
    /\ faithful' = TRUE
    /\ UNCHANGED <<enable_header_, header_stream_, url_, observed, audit>>

\* Run, up to its loop
Run ==
    \E k \in Keys, prev \in PrevIndexArgs :
        /\ Enter("Run", k, prev)
        /\ max_failures' = MAX_FAILURES
        /\ pc' = "loop"

\* RunOnce, up to its try
RunOnce ==
    \E k \in Keys, prev \in PrevIndexArgs :
        /\ Enter("RunOnce", k, prev)
        /\ max_failures' = 0
        /\ pc' = "watch_get"

(***************************************************************************)
(* How an iteration ends.  Each fragment below sets pc', max_failures',    *)
(* result', iter' and streak'.                                             *)
(***************************************************************************)
NoException == [type |-> "", error_code |-> 0]

\* the record of the iteration that ends in this step
Ended(res, idx, e) ==
    [res |-> res, index |-> idx, streak0 |-> streak, exc |-> e.type]

\* the iterations Run or RunOnce took as failures, in a row
StreakAfter(res) ==
    IF res = "success" THEN 0
    ELSE IF res = "propagated" THEN streak
    ELSE IF streak <= MAX_FAILURES THEN streak + 1 ELSE streak

\* max_failures -= 2
Decrement_Twice(m) == m - 2

\* max_failures /= 2
Decrement_Halves(m) == m \div 2

\* max_failures--
Decrement(m) == m - 1

\* a success that leaves the budget as it is
ResetBudget_Keeps(m) == m

\* max_failures = MAX_FAILURES, on a successful watch response
ResetBudget(m) == MAX_FAILURES

\* wait_url_base + std::to_string(prev_index_)
NextUrl_SameIndex(k, index) == wait_url_base(k) \o to_string(index)

\* wait_url_base + std::to_string(prev_index_ + 1)
NextUrl(k, index) == wait_url_base(k) \o to_string(index + 1)

\* e.what() as RunOnce reads it.  CurlException::what() returns c_str() of a
\* temporary that is gone when it returns, so what is read there is
\* indeterminate.
WhatOf(e) ==
    IF e.type = "CurlException"
    THEN {"Failed easy perform [code: 7] Couldn't connect to server",
          "<indeterminate>"}
    ELSE {"what"}

\* an exception no handler takes leaves the call
Propagate(res, e) ==
    /\ pc' = "done"
    /\ result' = [how |-> "propagated", what |-> e.type]
    /\ iter' = Ended(res, 0, e)
    /\ streak' = StreakAfter(res)
    /\ UNCHANGED max_failures

\* Run: a failure that leaves the budget as it is
RunFailed_Keeps(res, idx, e) ==
    /\ pc' = "loop"
    /\ iter' = Ended(res, idx, e)
    /\ streak' = StreakAfter(res)
    /\ UNCHANGED <<max_failures, result>>

\* Run: the failure counted, back to the loop test
RunFailed(res, idx, e) ==
    /\ pc' = "loop"
    /\ max_failures' = Decrement(max_failures)
    /\ iter' = Ended(res, idx, e)
    /\ streak' = StreakAfter(res)
    /\ UNCHANGED result

\* RunOnce: past the handlers, to the end of the function
RunOnceReturns(res, idx, e) ==
    /\ pc' = "done"
    /\ result' = [how |-> "returned", what |-> ""]
    /\ iter' = Ended(res, idx, e)
    /\ streak' = StreakAfter(res)
    /\ UNCHANGED max_failures

\* RunOnce: throw ClientException("failed with" + std::string(e.what()))
RunOnceThrows(res, e) ==
    /\ pc' = "done"
    /\ \E w \in WhatOf(e) :
           result' = [how |-> "ClientException", what |-> "failed with" \o w]
    /\ iter' = Ended(res, 0, e)
    /\ streak' = StreakAfter(res)
    /\ UNCHANGED max_failures

EnterRecovery ==
    /\ pc' = "rec_get"
    /\ UNCHANGED <<max_failures, result, iter, streak>>

\* Run without its catch (const std::exception&)
RunCatch_NoStdHandler(e) ==
    IF e.type = "ReplyException"
    THEN IF e.error_code = EcodeEventIndexCleared
         THEN EnterRecovery
         ELSE RunFailed("failure", 0, e)
    ELSE Propagate("propagated", e)

\* Run taking every ReplyException for "index cleared"
RunCatch_AnyReplyStale(e) ==
    IF e.type = "ReplyException" THEN EnterRecovery
    ELSE IF IsStdException(e) THEN RunFailed("failure", 0, e)
    ELSE Propagate("propagated", e)

\* the handlers of Run's try
RunCatch(e) ==
    IF e.type = "ReplyException"
    THEN IF e.error_code = EcodeEventIndexCleared
         THEN EnterRecovery
         ELSE RunFailed("failure", 0, e)
    ELSE IF IsStdException(e) THEN RunFailed("failure", 0, e)
    ELSE Propagate("propagated", e)

\* the handlers of RunOnce's try
RunOnceCatch(e) ==
    IF e.type = "ReplyException"
    THEN IF e.error_code = EcodeEventIndexCleared
         THEN EnterRecovery
         ELSE RunOnceReturns("failure", 0, e)
    ELSE IF IsStdException(e) THEN RunOnceThrows("failure", e)
    ELSE Propagate("propagated", e)

\* an exception thrown in the try of the call in progress
Throw(e) == IF mode = "Run" THEN RunCatch(e) ELSE RunOnceCatch(e)

\* a recovery that ran through not counted against Run's budget
RecoveryEnds_FreeRecovery(res, idx, e) ==
    IF mode = "Run" /\ res = "recovered"
    THEN /\ pc' = "loop"
         /\ iter' = Ended(res, idx, e)
         /\ streak' = StreakAfter(res)
         /\ UNCHANGED <<max_failures, result>>
    ELSE IF mode = "Run" THEN RunFailed(res, idx, e)
    ELSE RunOnceReturns(res, idx, e)

\* a recovery that ran through giving Run its whole budget back
RecoveryEnds_ResetsBudget(res, idx, e) ==
    IF mode = "Run" /\ res = "recovered"
    THEN /\ pc' = "loop"
         /\ max_failures' = MAX_FAILURES
         /\ iter' = Ended(res, idx, e)
         /\ streak' = StreakAfter(res)
         /\ UNCHANGED result
    ELSE IF mode = "Run" THEN RunFailed(res, idx, e)
    ELSE RunOnceReturns(res, idx, e)

\* the end of the "index out of date" branch: Run counts a failure, RunOnce
\* returns
RecoveryEnds(res, idx, e) ==
    IF mode = "Run" THEN RunFailed(res, idx, e)
    ELSE RunOnceReturns(res, idx, e)

\* catch (const std::exception&) in place of catch (...)
RecoveryCatches_StdOnly(e) == IsStdException(e)

\* catch (...) of the recovery
RecoveryCatches(e) == TRUE

\* an exception thrown inside the recovery's try
RecoveryThrow(e) ==
    IF RecoveryCatches(e) THEN RecoveryEnds("recovery_failed", 0, e)
    ELSE Propagate("recovery_failed", e)

\* the end of a try block that ran through: Run resets its budget
Succeeded(index) ==
    /\ iter' = Ended("success", index, NoException)
    /\ streak' = StreakAfter("success")
    /\ IF mode = "Run"
       THEN /\ pc' = "loop"
            /\ max_failures' = ResetBudget(max_failures)
            /\ UNCHANGED result
       ELSE /\ pc' = "done"
            /\ result' = [how |-> "returned", what |-> ""]
            /\ UNCHANGED max_failures

(***************************************************************************)
(* Curl::Get.                                                              *)
(***************************************************************************)
\* a request that leaves the captured header text of earlier requests
ClearHeader_Keeps(s) == s

\* header_stream_.str(""); header_stream_.clear()
ClearHeader(s) == <<>>

\* _SetCommonOptions sets the URL and, when capture is enabled, clears
\* header_stream_ and sets the header callback; curl_easy_perform then
\* feeds HeaderCb.  A failed transfer leaves the header text it delivered.
CurlGet(url, capture, hdr) ==
    /\ url_' = url
    /\ header_stream_' =
         IF capture THEN ClearHeader(header_stream_) \o hdr ELSE header_stream_

PlainUrl(k) == url_prefix_ \o k

(***************************************************************************)
(* The steps of a call.                                                    *)
(***************************************************************************)
\* the waitIndex a long-poll URL of the call in progress carries: the code
\* writes "&waitIndex=" only in front of std::to_string(prev_index_ + 1)
CarriesWaitIndex(url) == url = NextUrl(key, prev_index_)

\* the answer to a long-poll on url keeps to its waitIndex, if it has one
Faithful(url, body) ==
    (CarriesWaitIndex(url) /\ body.kind = "node") => body.n >= prev_index_ + 1

\* the greatest modified index observed, after a success with this one
Observe(index) ==
    IF ~audit \/ (observed.some /\ observed.index >= index) THEN observed
    ELSE [some |-> TRUE, index |-> index]

\* Run: while (max_failures), and what follows the loop
LoopTest ==
    /\ pc = "loop"
    /\ IF max_failures # 0
       THEN /\ pc' = "watch_get"
            /\ UNCHANGED result
       ELSE /\ pc' = "done"
            /\ result' =
                 IF max_failures = 0
                 THEN [how |-> "ClientException",
                       what |-> "watch failed or timedout"]
                 ELSE [how |-> "returned", what |-> ""]
    /\ UNCHANGED <<engine, mode, key, prevIndex, watch_url, max_failures,
                   ret, r, history>>

\* std::string ret = handle_->Get(watch_url)
WatchGet ==
    /\ pc = "watch_get"
    /\ \E hdr \in HeaderBlocks :
        /\ CurlGet(watch_url, enable_header_, hdr)
        /\ \/ \E body \in Bodies :
                /\ ret' = body
                /\ pc' = "watch_reply"
                /\ faithful' = (faithful /\ (audit => Faithful(watch_url, body)))
                /\ UNCHANGED <<max_failures, result, iter, streak>>
           \/ /\ Throw(CurlException)
              /\ UNCHANGED <<ret, faithful>>
    /\ n_watch' = Bump(n_watch)
    /\ UNCHANGED <<prev_index_, enable_header_, mode, key, prevIndex,
                   watch_url, r, n_plain, n_cb, cb_arg, observed, audit>>

\* Reply r(ret)
WatchReply ==
    /\ pc = "watch_reply"
    /\ ret' = EmptyBody
    /\ IF ReplyThrows(ret) = {}
       THEN /\ r' = [ok |-> TRUE, modified_index |-> ret.n]
            /\ pc' = "watch_cb"
            /\ UNCHANGED <<max_failures, result, iter, streak>>
       ELSE /\ \E e \in ReplyThrows(ret) : Throw(e)
            /\ UNCHANGED r
    /\ UNCHANGED <<engine, mode, key, prevIndex, watch_url, n_watch, n_plain,
                   n_cb, cb_arg, observed, faithful, audit>>

\* callback(r), and the rest of the try block when it returns
WatchCallback ==
    /\ pc = "watch_cb"
    /\ n_cb' = Bump(n_cb)
    /\ cb_arg' = [from |-> "watch", modified_index |-> r.modified_index]
    /\ r' = NoReply
    /\ \/ /\ prev_index_' = r.modified_index
          /\ watch_url' = NextUrl(key, r.modified_index)
          /\ observed' = Observe(r.modified_index)
          /\ Succeeded(r.modified_index)
       \/ /\ \E e \in CallbackThrows : Throw(e)
          /\ UNCHANGED <<prev_index_, watch_url, observed>>
    /\ UNCHANGED <<enable_header_, header_stream_, url_, mode, key, prevIndex,
                   ret, n_watch, n_plain, faithful, audit>>

\* handle_->EnableHeader(true); std::string ret = handle_->Get(url_prefix_ + key)
RecoveryGet ==
    /\ pc = "rec_get"
    /\ enable_header_' = TRUE
    /\ \E hdr \in HeaderBlocks :
        /\ CurlGet(PlainUrl(key), TRUE, hdr)
        /\ \/ \E body \in Bodies :
                /\ ret' = body
                /\ pc' = "rec_reply"
                /\ UNCHANGED <<max_failures, result, iter, streak>>
           \/ /\ RecoveryThrow(CurlException)
              /\ UNCHANGED ret
    /\ n_plain' = Bump(n_plain)
    /\ UNCHANGED <<prev_index_, mode, key, prevIndex, watch_url, r, n_watch,
                   n_cb, cb_arg, observed, faithful, audit>>

\* Reply r(ret), in the recovery
RecoveryReply ==
    /\ pc = "rec_reply"
    /\ ret' = EmptyBody
    /\ IF ReplyThrows(ret) = {}
       THEN /\ r' = [ok |-> TRUE, modified_index |-> ret.n]
            /\ pc' = "rec_cb"
            /\ UNCHANGED <<max_failures, result, iter, streak>>
       ELSE /\ \E e \in ReplyThrows(ret) : RecoveryThrow(e)
            /\ UNCHANGED r
    /\ UNCHANGED <<engine, mode, key, prevIndex, watch_url, n_watch, n_plain,
                   n_cb, cb_arg, observed, faithful, audit>>

\* callback(r), in the recovery
RecoveryCallback ==
    /\ pc = "rec_cb"
    /\ n_cb' = Bump(n_cb)
    /\ cb_arg' = [from |-> "plain", modified_index |-> r.modified_index]
    /\ r' = NoReply
    /\ \/ /\ pc' = "rec_scan"
          /\ UNCHANGED <<max_failures, result, iter, streak>>
       \/ \E e \in CallbackThrows : RecoveryThrow(e)
    /\ UNCHANGED <<engine, mode, key, prevIndex, watch_url, ret, n_watch,
                   n_plain, observed, faithful, audit>>

\* the header scan, handle_->EnableHeader(false), and the new watch_url
RecoveryScan ==
    /\ pc = "rec_scan"
    /\ LET s == ScanHeader(header_stream_, prev_index_)
       IN  IF s.threw
           THEN /\ RecoveryThrow(StdException)
                /\ UNCHANGED <<prev_index_, enable_header_, watch_url>>
           ELSE /\ prev_index_' = s.index
                /\ enable_header_' = FALSE
                /\ watch_url' = NextUrl(key, s.index)
                /\ RecoveryEnds("recovered", s.index, NoException)
    /\ UNCHANGED <<header_stream_, url_, mode, key, prevIndex, ret, r,
                   n_watch, n_plain, n_cb, cb_arg, observed, faithful, audit>>

Next ==
    \/ Run
    \/ RunOnce
    \/ LoopTest
    \/ WatchGet
    \/ WatchReply
    \/ WatchCallback
    \/ RecoveryGet
    \/ RecoveryReply
    \/ RecoveryCallback
    \/ RecoveryScan

Spec == Init /\ [][Next]_vars

\* the same engine, with observed and faithful recorded
SpecAudit == InitAudit /\ [][Next]_vars

(***************************************************************************)
(* Properties.                                                             *)
(***************************************************************************)
InRun == mode = "Run"

InRunOnce == mode = "RunOnce"

\* C1: in RunOnce, every failure of the long-poll iteration other than a
\* stale index (a transport error, a reply error with a code other than
\* 401) reaches the caller as a ClientException: RunOnce never returns
\* normally after one.
C1_RunOnceRaisesOtherFailures ==
    (InRunOnce /\ pc = "done" /\ iter.res = "failure"
       /\ iter.exc \in {"CurlException", "ReplyException"})
    => result.how = "ClientException"

\* the URL C2 states for the first long-poll of a call
C2_StatedUrl ==
    LET cursor == IF prevIndex # 0 THEN prevIndex ELSE prev_index_
    IN  IF cursor # 0
        THEN url_prefix_ \o key \o "?wait=true&waitIndex=" \o to_string(cursor + 1)
        ELSE url_prefix_ \o key \o "?wait=true"

\* C2: the first long-poll of Run or RunOnce asks for
\* prefix+key+"?wait=true&waitIndex="+(cursor+1) when a starting cursor is
\* known, and for prefix+key+"?wait=true" when none is.
C2_FirstRequestUrl ==
    (pc = "watch_reply" /\ iter.res = "none") => url_ = C2_StatedUrl

\* C3: in Run, after a successful iteration with modified index N the
\* cached cursor is N, and the next long-poll asks for
\* prefix+key+"?wait=true&waitIndex="+(N+1).
C3_SuccessAdvancesCursor ==
    (InRun /\ iter.res = "success") =>
        /\ pc \in {"loop", "watch_get"} =>
             /\ prev_index_ = iter.index
             /\ watch_url = url_prefix_ \o key \o "?wait=true&waitIndex="
                              \o to_string(iter.index + 1)
        /\ pc = "watch_reply" =>
             url_ = url_prefix_ \o key \o "?wait=true&waitIndex="
                      \o to_string(iter.index + 1)

\* a first reply with index 42 is followed by a request for waitIndex=43
C3_Witness ==
    /\ InRun
    /\ pc = "watch_reply"
    /\ iter.res = "success"
    /\ iter.index = 42
    /\ iter.streak0 = 0
    /\ url_ = "http://172.16.1.10:2379/v2/keys/message?wait=true&waitIndex=43"

InIteration ==
    pc \in {"watch_get", "watch_reply", "watch_cb",
            "rec_get", "rec_reply", "rec_cb", "rec_scan"}

\* C4: Run raises ClientException after exactly MAX_FAILURES failed
\* iterations in a row: it issues a request only while fewer have failed,
\* and it has raised only when exactly MAX_FAILURES have.
C4_AbortsAfterMaxFailures ==
    InRun =>
        /\ streak <= MAX_FAILURES
        /\ InIteration => streak < MAX_FAILURES
        /\ (pc = "loop" /\ streak = MAX_FAILURES) => max_failures = 0
        /\ (pc = "loop" /\ streak < MAX_FAILURES) => max_failures # 0
        /\ (pc = "done" /\ result.how = "ClientException") =>
              streak = MAX_FAILURES

C4_Witness ==
    /\ InRun
    /\ pc = "done"
    /\ result = [how |-> "ClientException", what |-> "watch failed or timedout"]
    /\ streak = MAX_FAILURES
    /\ iter.res = "failure"

\* C5: in Run the budget left is MAX_FAILURES less the failures since the
\* last successful iteration (or since entry): a success gives the whole
\* budget back, however many failures came before it.
C5_SuccessResetsBudget ==
    InRun =>
        /\ max_failures = MAX_FAILURES - streak
        /\ (pc = "loop" /\ iter.res = "success") => max_failures = MAX_FAILURES

\* a success right after MAX_FAILURES - 1 failures
C5_Witness ==
    /\ InRun
    /\ pc = "loop"
    /\ iter.res = "success"
    /\ iter.streak0 = MAX_FAILURES - 1
    /\ max_failures = MAX_FAILURES

\* C6 as stated: in Run, an iteration whose long-poll reports 401 and
\* whose recovery runs through without an exception leaves the failure
\* budget unchanged.
C6_RecoveredLeavesBudget ==
    [][(InRun /\ pc = "rec_scan" /\ iter'.res = "recovered")
         => max_failures' = max_failures]_vars

\* C6, amended: in Run, an iteration whose long-poll reports 401 costs one
\* unit of the failure budget also when its recovery runs through without
\* an exception, and Run goes on to its loop test.
C6_RecoveredCostsOne ==
    [][(InRun /\ pc = "rec_scan" /\ iter'.res = "recovered")
         => (max_failures' = max_failures - 1 /\ pc' = "loop")]_vars

\* a recovery that ran through on the first iteration of Run
C6_Witness ==
    /\ InRun
    /\ pc = "loop"
    /\ iter.res = "recovered"
    /\ iter.streak0 = 0
    /\ max_failures = MAX_FAILURES - 1

\* a header line that names X-Etcd-Index: it starts with the label
NamesIndex(line) ==
    /\ Len(line) >= Len(etcd_index_label)
    /\ SubSeq(line, 1, Len(etcd_index_label)) = etcd_index_label

\* the first line of the header text that names X-Etcd-Index, <<>> if none
RECURSIVE FirstNaming(_, _)
FirstNaming(lines, i) ==
    IF i > Len(lines) THEN <<>>
    ELSE IF NamesIndex(lines[i]) THEN lines[i]
    ELSE FirstNaming(lines, i + 1)

IndexLine(header) == FirstNaming(getline(header), 1)

\* the integer value of such a line: what follows the label, as an integer
IndexValue(line) ==
    stoi(SubSeq(line, Len(etcd_index_label) + 1, Len(line)))

\* C7: after a long-poll that reported 401 the engine has issued a plain
\* GET on prefix+key and invoked the callback with its reply; it takes the
\* first captured header line naming X-Etcd-Index, its integer value V
\* becomes the cached cursor, and Run's next long-poll URL is
\* prefix+key+"?wait=true&waitIndex="+(V+1).
C7_RecoveryAdoptsHeaderIndex ==
    [][pc = "rec_scan" =>
         /\ url_ = url_prefix_ \o key
         /\ cb_arg.from = "plain"
         /\ (IndexLine(header_stream_) # <<>>
               /\ IndexValue(IndexLine(header_stream_)).what = "ok")
            => LET V == IndexValue(IndexLine(header_stream_)).val
               IN  /\ prev_index_' = V
                   /\ InRun => watch_url' = url_prefix_ \o key
                                 \o "?wait=true&waitIndex=" \o to_string(V + 1)
      ]_vars

\* C8: in the recovery, when no captured header line names X-Etcd-Index, or
\* the value of the first that does is no integer, the cached cursor keeps
\* its value and no exception leaves the recovery.
C8_NoIndexKeepsCursor ==
    [][(pc = "rec_scan"
          /\ (IndexLine(header_stream_) = <<>>
                \/ IndexValue(IndexLine(header_stream_)).what # "ok"))
         => (prev_index_' = prev_index_ /\ result'.how # "propagated")]_vars

\* C9: an exception raised inside the recovery (by the plain GET, by the
\* decoding of its body, by the callback, by the header parse) never leaves
\* Run or RunOnce: Run counts the failure and is back at its loop test,
\* RunOnce returns normally.
C9_RecoveryExceptionsSwallowed ==
    iter.res = "recovery_failed" =>
        /\ result.how # "propagated"
        /\ InRunOnce => (pc = "done" /\ result.how = "returned")
        /\ (InRun /\ pc = "loop") =>
              max_failures = MAX_FAILURES - (iter.streak0 + 1)
        /\ (InRun /\ pc = "done") => result.how = "ClientException"

\* the snapshot callback threw something that is no std::exception
C9_Witness ==
    /\ InRunOnce
    /\ pc = "done"
    /\ iter.res = "recovery_failed"
    /\ iter.exc = "foreign"
    /\ n_cb = 1
    /\ result.how = "returned"

\* C10: a RunOnce call issues exactly one long-poll, at most one more
\* request (the plain GET, only after the long-poll reported 401), invokes
\* the callback at most once, and never goes back to a second long-poll.
C10_RunOnceSingleShot ==
    InRunOnce =>
        /\ n_watch = IF pc = "watch_get" THEN 0 ELSE 1
        /\ n_plain <= 1
        /\ n_cb <= 1
        /\ n_plain = 1 =>
              \/ pc \in {"rec_reply", "rec_cb", "rec_scan"}
              \/ pc = "done" /\ iter.res \in {"recovered", "recovery_failed"}
        /\ pc \in {"rec_get", "rec_reply", "rec_cb", "rec_scan"} => n_cb =
              IF pc = "rec_scan" THEN 1 ELSE 0

\* C11 as stated: Run never returns normally, and a Run call that has ended
\* has raised ClientException("watch failed or timedout") with the failure
\* budget at 0: it ends in no other state and by no other exception.
C11_RunEndsOnlyByBudget ==
    (InRun /\ pc = "done") =>
        /\ result = [how |-> "ClientException",
                     what |-> "watch failed or timedout"]
        /\ max_failures = 0

\* C11, amended: Run never returns normally.  A Run call that has ended has
\* either raised ClientException("watch failed or timedout") with the budget
\* at 0, or let through what the callback threw on a long-poll reply,
\* something that is no std::exception, with the budget still above 0.  While
\* the budget is 0 Run is at its loop test or has ended.
C11_RunEndsByBudgetOrForeign ==
    InRun =>
        /\ result.how # "returned"
        /\ max_failures = 0 => pc \in {"loop", "done"}
        /\ pc = "done" =>
             \/ /\ result = [how |-> "ClientException",
                             what |-> "watch failed or timedout"]
                /\ max_failures = 0
             \/ /\ result = [how |-> "propagated", what |-> "foreign"]
                /\ iter.res = "propagated"
                /\ iter.exc = "foreign"
                /\ cb_arg.from = "watch"
                /\ max_failures > 0

\* the callback threw something foreign after two failed iterations
C11_Witness ==
    /\ InRun
    /\ pc = "done"
    /\ result.how = "propagated"
    /\ iter.exc = "foreign"
    /\ cb_arg = [from |-> "watch", modified_index |-> 42]
    /\ max_failures = MAX_FAILURES - 2

\* C12: over any sequence of calls on the engine, no long-poll is issued
\* with a waitIndex less than or equal to a modified index the engine has
\* observed in a successful watch iteration.
C12_NoStaleWaitIndex ==
    (pc = "watch_reply" /\ observed.some) =>
        \A c \in 0 .. observed.index :
            url_ # url_prefix_ \o key \o "?wait=true&waitIndex=" \o to_string(c)

\* C13: within a Run call whose long-polls were all answered faithfully (a
\* long-poll carrying waitIndex=w only with a modified index >= w), each
\* reply passed to the callback, a recovery snapshot included, has a
\* modified index not below that of the reply passed before it.
C13_DeliveriesNonDecreasing ==
    [][(InRun /\ faithful /\ pc \in {"watch_cb", "rec_cb"}
          /\ cb_arg.from # "none")
         => cb_arg'.modified_index >= cb_arg.modified_index]_vars

\* C14: a call ends with the cursor at the modified index of its last
\* iteration when that one succeeded; the next call with prevIndex = 0
\* starts from the cached cursor N, one with prevIndex = P # 0 from P; and
\* its first request asks for waitIndex = cursor + 1.
C14_CursorSeedsNextCall ==
    /\ []((pc = "done" /\ iter.res = "success") => prev_index_ = iter.index)
    /\ [][(pc \in {"idle", "done"} /\ pc' \notin {"idle", "done"})
            => prev_index_' = IF prevIndex' # 0 THEN prevIndex' ELSE prev_index_
         ]_vars
    /\ []((pc = "watch_reply" /\ iter.res = "none" /\ prev_index_ # 0) =>
            url_ = url_prefix_ \o key \o "?wait=true&waitIndex="
                     \o to_string(prev_index_ + 1))

\* C15: header capture is on only inside a recovery: once a recovery has
\* ended, run through or aborted, it is off again, and every long-poll is
\* issued with it off.
C15_HeaderCaptureOffOutsideRecovery ==
    pc \notin {"rec_reply", "rec_cb", "rec_scan"} => enable_header_ = FALSE

InRecovery == pc \in {"rec_get", "rec_reply", "rec_cb", "rec_scan"}

\* C16: in Run, an iteration that entered the recovery costs exactly 1 of
\* the budget when the recovery ends, run through or aborted; the recovery
\* itself never touches the budget, so after it the budget is MAX_FAILURES
\* less the failures in a row, this one included.
C16_StaleAlwaysCostsOne ==
    /\ [][(InRun /\ InRecovery) =>
            \/ (pc' \in {"rec_reply", "rec_cb", "rec_scan"}
                  /\ max_failures' = max_failures)
            \/ (pc' = "loop"
                  /\ iter'.res \in {"recovered", "recovery_failed"}
                  /\ max_failures' = max_failures - 1)
         ]_vars
    /\ []((InRun /\ pc = "loop"
             /\ iter.res \in {"recovered", "recovery_failed"})
            => max_failures = MAX_FAILURES - (iter.streak0 + 1))

\* Run ended by MAX_FAILURES stale responses, the last recovery run through
C16_Witness ==
    /\ InRun
    /\ pc = "done"
    /\ result.how = "ClientException"
    /\ iter.res = "recovered"
    /\ iter.streak0 = MAX_FAILURES - 1
    /\ cb_arg.from = "plain"
    /\ max_failures = 0

\* the long-poll step in progress fails in transport, or its reply is an
\* error whose code is not 401
PlainFailure ==
    \/ pc = "watch_get" /\ pc' # "watch_reply"
    \/ pc = "watch_reply" /\ ret.kind = "error"
         /\ ret.n # EcodeEventIndexCleared

\* C17: in Run, such an iteration costs 1 of the budget and changes neither
\* the cursor, nor the watch URL, nor the header-capture mode; the callback
\* is not invoked; and the request after a failed iteration is for the URL
\* of the request before.
C17_PlainFailureFrame ==
    [][InRun =>
         /\ PlainFailure =>
              /\ pc' = "loop"
              /\ iter'.res = "failure"
              /\ max_failures' = max_failures - 1
              /\ UNCHANGED <<prev_index_, watch_url, enable_header_, cb_arg>>
         /\ (pc = "watch_get" /\ iter.res = "failure") =>
              (url_' = url_ /\ url_' = watch_url)
      ]_vars

\* a transport failure after a success with index 42: the same URL again
C17_Witness ==
    /\ InRun
    /\ pc = "watch_reply"
    /\ iter.res = "failure"
    /\ iter.exc = "CurlException"
    /\ prev_index_ = 42
    /\ max_failures = MAX_FAILURES - 1
    /\ url_ = "http://172.16.1.10:2379/v2/keys/message?wait=true&waitIndex=43"

\* C18: the plain GET of a recovery leaves in the header buffer the header
\* block of its own response and nothing captured before; a cursor the scan
\* adopts is the one the scan reads in that block; and a plain GET that
\* fails ends the recovery with the cursor as it was.
C18_RecoveryReadsOwnHeaders ==
    [][/\ (pc = "rec_get" /\ pc' = "rec_reply") =>
              header_stream_' \in HeaderBlocks
       /\ (pc = "rec_get" /\ pc' # "rec_reply") =>
              (prev_index_' = prev_index_ /\ iter'.res = "recovery_failed")
       /\ pc \in {"rec_reply", "rec_cb"} => header_stream_' = header_stream_
       /\ (pc = "rec_scan" /\ prev_index_' # prev_index_) =>
              /\ header_stream_ \in HeaderBlocks
              /\ prev_index_' = ScanHeader(header_stream_, prev_index_).index
      ]_vars

\* a recovery about to adopt 100, after an aborted recovery left capture on
\* and the long-poll in between captured its own headers
C18_Witness ==
    /\ InRun
    /\ pc = "rec_scan"
    /\ iter.res = "recovery_failed"
    /\ iter.streak0 = 0
    /\ prev_index_ = 0
    /\ header_stream_ = LineDate \o LineIndex100 \o LineIndex7

C20_BudgetBounds ==
    /\ [](InRun => max_failures \in 0 .. MAX_FAILURES)
    /\ []((InRun /\ InIteration) => max_failures > 0)
    /\ [][(InRun /\ mode' = "Run" /\ max_failures' # max_failures)
            => max_failures' \in {max_failures - 1, MAX_FAILURES}]_vars

\* the last request the budget allows: a plain GET with the budget at 1
C20_Witness ==
    /\ InRun
    /\ pc = "rec_reply"
    /\ max_failures = 1
    /\ streak = MAX_FAILURES - 1

====
